---- MODULE Spec2Model ----
(***************************************************************************)
(* nsctl: a namespace launcher (cmd/main.go, pkg/ns/namespace.go) and a    *)
(* file-backed container state registry (pkg/ns state file).               *)
(*                                                                         *)
(* One OS process is one slot p \in Pids: procs[p] is what the kernel      *)
(* knows about it, and currentStateDir[p], pc[p], ... are the registry     *)
(* package's state inside that process.                                    *)
(***************************************************************************)
EXTENDS Integers, Sequences, FiniteSets, TLC

\* ---------------------------------------------------------------- bounds
MaxTime == 1        \* time.Now().Unix() ranges over 0..MaxTime
MaxOps == 4         \* process starts and registry calls in one behaviour
MaxArgs == 2        \* words on a command line, after the program name
MaxExecs == 2       \* command lines typed by users in one behaviour

Pids == {1, 2}      \* process ids
Times == 0..MaxTime
Uids == {"root", "user"}

\* ---------------------------------------------------------------- constants of the code
defaultStateDir == "/var/run/nsctl"
userStateDir == "$HOME/.nsctl/run"
containerFileExt == ".json"
Dirs == {defaultStateDir, userStateDir}

\* command lines handed to RegisterContainer (valid UTF-8 strings, which
\* encoding/json stores and reads back unchanged)
Inputs == { <<"/bin/echo", <<"hi">> >>, <<"sh", << >> >> }

VARIABLES
    now,              \* the wall clock, in seconds
    procs,            \* procs[p]: [st: "none" | "alive" | "zombie", uid]
    dirExists,        \* dirExists[d]: the directory d exists
    files,            \* files[d]: file name -> file content, for the files in d
    currentStateDir,  \* currentStateDir[p]: the package variable, per process
    pc,               \* pc[p]: "idle" | "list" (inside ListContainers' loop)
    todo,             \* todo[p]: directory entries ListContainers has still to visit
    containers,       \* containers[p]: ListContainers' accumulator
    gor,              \* gor[p]: ids whose cleanup goroutine has been started and not yet run
    ret,              \* what the registry call that has just returned returned, and to whom
    nops,             \* number of process starts and registry calls so far
    regLog,           \* history: the successful registrations
    chain,            \* history: a Register immediately followed by a List, or by the
                      \* end of the registered process and then a List
    cli,              \* cli[p]: where process p is in cmd/main.go and pkg/ns/namespace.go
    hostname,         \* hostname[n]: the hostname of UTS namespace n (0 is the host's)
    mounts,           \* mounts[n]: the /proc mounts in the mount table of mount namespace n
    boot,             \* the host as it booted: its hostname, its mount propagation
    nextNs            \* the next fresh namespace id

regProc == <<currentStateDir, pc, todo, containers, gor>>
hist == <<ret, regLog, chain>>
launchVars == <<cli, hostname, mounts, boot, nextNs>>
vars == <<now, procs, dirExists, files, currentStateDir, pc, todo, containers,
          gor, ret, nops, regLog, chain, cli, hostname, mounts, boot, nextNs>>

\* ---------------------------------------------------------------- helpers
NoRet == [by |-> 0, op |-> "none", err |-> "nil", id |-> <<>>, list |-> <<>>, existed |-> FALSE]
NoChain == [stage |-> "none", inv |-> 0, pid |-> 0, id |-> <<>>, command |-> "", args |-> <<>>]

Put(f, k, v) == [x \in DOMAIN f \cup {k} |-> IF x = k THEN v ELSE f[x]]
Del(f, k) == [x \in DOMAIN f \ {k} |-> f[x]]

\* a container id that leaves the process id out
generateContainerID_NoPid(t, pid) == <<"nsctl", t, 0>>

\* fmt.Sprintf("nsctl_%d_%d", time.Now().Unix(), pid)
generateContainerID(t, pid) == <<"nsctl", t, pid>>

\* a path built from the time part of the id alone
getContainerFilePath_ByTime(containerID) ==
    <<<<containerID[1], containerID[2], 0>>, containerFileExt>>

\* the file name part of filepath.Join(currentStateDir, containerID+containerFileExt)
getContainerFilePath(containerID) == <<containerID, containerFileExt>>

HasSuffix(name, ext) == name[2] = ext

\* json.MarshalIndent of a ContainerInfo: a JSON document with the six fields
Marshal(info) ==
    <<"json", [id |-> info.id, pid |-> info.pid, command |-> info.command,
               args |-> info.args, start_time |-> info.start_time,
               status |-> info.status]>>

\* the zero value of ContainerInfo
ZeroInfo == [id |-> <<>>, pid |-> 0, command |-> "", args |-> <<>>, start_time |-> 0,
             status |-> ""]

\* what a file can hold beside a record: bytes that json.Unmarshal rejects (not
\* JSON, or a "pid" that is not a number); and a directory entry that is itself
\* a directory, which ReadFile cannot read
Garbage == <<"garbage">>
Directory == <<"dir">>

\* a json.Unmarshal that reports no error and leaves the zero value for what it
\* cannot parse
Unmarshal_Lenient(data) ==
    IF data[1] = "json" THEN [err |-> "nil", info |-> data[2]]
    ELSE [err |-> "nil", info |-> ZeroInfo]

\* json.Unmarshal: the ContainerInfo of a JSON document, an error for anything else
Unmarshal(data) ==
    IF data[1] = "json" THEN [err |-> "nil", info |-> data[2]]
    ELSE [err |-> "syntax", info |-> <<>>]

\* ---------------------------------------------------------------- the kernel
\* kill(pid, 0) as called by a process of user uid
Kill0(uid, pid) ==
    IF pid = 0 THEN "nil"    \* pid 0: the caller's own process group
    ELSE IF pid \notin Pids THEN "ESRCH"
    ELSE IF procs[pid].st = "none" THEN "ESRCH"
    ELSE IF uid # "root" /\ procs[pid].uid # uid THEN "EPERM"
    ELSE "nil"

\* a probe that reports every process id alive
isProcessRunning_Always(uid, pid) == TRUE

\* isProcessRunning: err == nil
isProcessRunning(uid, pid) == Kill0(uid, pid) = "nil"

\* os.MkdirAll(dir, 0755): /var/run belongs to root, $HOME to the caller
MkdirAll(uid, dir) ==
    IF dirExists[dir] THEN "nil"
    ELSE IF dir = defaultStateDir /\ uid # "root" THEN "EACCES"
    ELSE "nil"

\* may uid create, overwrite or unlink files in dir (0755, owned by its creator)
CanWrite(uid, dir) == uid = "root" \/ dir = userStateDir

\* a removal that checks the permission on the directory before it looks the
\* file up
Remove_PermFirst(uid, dir, name) ==
    IF ~CanWrite(uid, dir) THEN "EACCES"
    ELSE IF ~dirExists[dir] \/ name \notin DOMAIN files[dir] THEN "ENOENT"
    ELSE "nil"

\* os.Remove(path): the lookup comes first, the permission check second
Remove(uid, dir, name) ==
    IF ~dirExists[dir] \/ name \notin DOMAIN files[dir] THEN "ENOENT"
    ELSE IF ~CanWrite(uid, dir) THEN "EACCES"
    ELSE "nil"

\* ioutil.ReadFile(filepath.Join(dir, name))
ReadFile(dir, name) ==
    IF name \notin DOMAIN files[dir] THEN [err |-> "ENOENT", data |-> <<>>]
    ELSE IF files[dir][name] = Directory THEN [err |-> "EISDIR", data |-> <<>>]
    ELSE [err |-> "nil", data |-> files[dir][name]]

IsNotExist(err) == err = "ENOENT"
IsPermission(err) == err = "EACCES"

\* ReadDir returns the entries sorted by file name
NameLess(a, b) ==
    \/ a[1][2] < b[1][2]
    \/ a[1][2] = b[1][2] /\ a[1][3] < b[1][3]
    \/ a[1] = b[1] /\ a[2] = containerFileExt /\ b[2] # containerFileExt

RECURSIVE SortedNames(_)
SortedNames(S) ==
    IF S = {} THEN << >>
    ELSE LET m == CHOOSE x \in S : \A y \in S \ {x} : NameLess(x, y)
         IN <<m>> \o SortedNames(S \ {m})

\* ---------------------------------------------------------------- registry
\* an ensureStateDir that goes back to the primary directory whenever MkdirAll
\* of the directory in use succeeds
ensureStateDir_Reset(p) ==
    LET uid == procs[p].uid
        cur == currentStateDir[p]
        err == MkdirAll(uid, cur)
    IN IF err = "nil"
       THEN [err |-> "nil", dir |-> defaultStateDir,
             exists |-> [dirExists EXCEPT ![cur] = TRUE]]
       ELSE IF IsPermission(err)
            THEN [err |-> "nil", dir |-> userStateDir,
                  exists |-> [dirExists EXCEPT ![userStateDir] = TRUE]]
            ELSE [err |-> err, dir |-> cur, exists |-> dirExists]

\* ensureStateDir as run by process p: the error it returns, the directory
\* currentStateDir names afterwards, and the directories that exist afterwards
ensureStateDir(p) ==
    LET uid == procs[p].uid
        cur == currentStateDir[p]
        err == MkdirAll(uid, cur)
    IN IF err = "nil"
       THEN [err |-> "nil", dir |-> cur, exists |-> [dirExists EXCEPT ![cur] = TRUE]]
       ELSE IF IsPermission(err)
            THEN IF MkdirAll(uid, userStateDir) # "nil"
                 THEN [err |-> "fallback failed", dir |-> cur, exists |-> dirExists]
                 ELSE [err |-> "nil", dir |-> userStateDir,
                       exists |-> [dirExists EXCEPT ![userStateDir] = TRUE]]
            ELSE [err |-> err, dir |-> cur, exists |-> dirExists]

\* the records of directory dir that name process pid
RecordsOf(dir, pid) ==
    {n \in DOMAIN files[dir] :
        Unmarshal(files[dir][n]).err = "nil" /\ Unmarshal(files[dir][n]).info.pid = pid}

RegisterContainer(p, pid, command, args) ==
    /\ procs[p].st = "alive" /\ pc[p] = "idle"
    /\ LET e == ensureStateDir(p)
           containerID == generateContainerID(now, pid)
           containerInfo == [id |-> containerID, pid |-> pid, command |-> command,
                             args |-> args, start_time |-> now, status |-> "running"]
           name == getContainerFilePath(containerID)
           ok == e.err = "nil" /\ CanWrite(procs[p].uid, e.dir)
       IN /\ dirExists' = e.exists
          /\ currentStateDir' = [currentStateDir EXCEPT ![p] = e.dir]
          /\ files' = IF ok
                      THEN [files EXCEPT ![e.dir] = Put(@, name, Marshal(containerInfo))]
                      ELSE files
          /\ ret' = [NoRet EXCEPT !.by = p, !.op = "register",
                                  !.err = IF ok THEN "nil"
                                          ELSE IF e.err # "nil" THEN e.err ELSE "EACCES",
                                  !.id = IF ok THEN containerID ELSE <<>>]
          /\ regLog' = IF ok /\ procs[pid].st = "alive"
                       THEN regLog \cup {[id |-> containerID, dir |-> e.dir, pid |-> pid,
                                          live |-> TRUE]}
                       ELSE regLog
          /\ chain' = IF ok /\ procs[pid].st = "alive" /\ RecordsOf(e.dir, pid) = {}
                      THEN [stage |-> "registered", inv |-> p, pid |-> pid,
                            id |-> containerID, command |-> command, args |-> args]
                      ELSE NoChain
    /\ UNCHANGED <<now, procs, pc, todo, containers, gor, launchVars>>

\* an unregister that reports every error of os.Remove, "already absent" too
UnregisterResult_NoExempt(p, containerID) ==
    Remove(procs[p].uid, currentStateDir[p], getContainerFilePath(containerID))

\* os.Remove on the record's path, "already absent" counted as success
UnregisterResult(p, containerID) ==
    LET err == Remove(procs[p].uid, currentStateDir[p], getContainerFilePath(containerID))
    IN IF err # "nil" /\ ~IsNotExist(err) THEN err ELSE "nil"

UnregisterFiles(p, containerID) ==
    LET dir == currentStateDir[p]
        name == getContainerFilePath(containerID)
    IN IF Remove(procs[p].uid, dir, name) = "nil"
       THEN [files EXCEPT ![dir] = Del(@, name)]
       ELSE files

UnregisterContainer(p, containerID) ==
    /\ procs[p].st = "alive" /\ pc[p] = "idle"
    /\ files' = UnregisterFiles(p, containerID)
    /\ ret' = [NoRet EXCEPT !.by = p, !.op = "unregister",
                            !.err = UnregisterResult(p, containerID),
                            !.id = containerID,
                            !.existed = getContainerFilePath(containerID)
                                            \in DOMAIN files[currentStateDir[p]]]
    /\ chain' = NoChain
    /\ UNCHANGED <<now, procs, dirExists, regProc, regLog, launchVars>>

\* ListContainers up to the loop: ensureStateDir and ioutil.ReadDir
ListBegin(p) ==
    /\ procs[p].st = "alive" /\ pc[p] = "idle"
    /\ LET e == ensureStateDir(p)
       IN /\ dirExists' = e.exists
          /\ currentStateDir' = [currentStateDir EXCEPT ![p] = e.dir]
          /\ IF e.err # "nil"
             THEN /\ ret' = [NoRet EXCEPT !.by = p, !.op = "list", !.err = e.err]
                  /\ UNCHANGED <<pc, todo, containers>>
             ELSE /\ pc' = [pc EXCEPT ![p] = "list"]
                  /\ todo' = [todo EXCEPT ![p] = SortedNames(DOMAIN files[e.dir])]
                  /\ containers' = [containers EXCEPT ![p] = << >>]
                  /\ ret' = NoRet
    /\ chain' = IF chain.stage = "registered" /\ chain.inv = p
                THEN [chain EXCEPT !.stage = "listing"]
                ELSE IF chain.stage = "exited" /\ chain.inv = p
                     THEN [chain EXCEPT !.stage = "relisting"]
                     ELSE NoChain
    /\ UNCHANGED <<now, procs, files, gor, regLog, launchVars>>

\* a loop body that leaves the records of dead processes out of the result
ListAppend_SkipDead(acc, info, running) ==
    IF running THEN Append(acc, [info EXCEPT !.status = "running"]) ELSE acc

\* a loop body that believes a stored status "exited" without probing
ListAppend_Trust(acc, info, running) ==
    Append(acc, [info EXCEPT !.status = IF info.status = "exited" THEN "exited"
                                        ELSE IF running THEN "running" ELSE "exited"])

\* the status is recomputed from the probe and the record is appended, dead or not
ListAppend(acc, info, running) ==
    Append(acc, [info EXCEPT !.status = IF running THEN "running" ELSE "exited"])

\* one iteration of ListContainers' loop
ListStep(p) ==
    /\ procs[p].st = "alive" /\ pc[p] = "list" /\ todo[p] # << >>
    /\ LET name == Head(todo[p])
           dir == currentStateDir[p]
           read == ReadFile(dir, name)
           readable == read.err = "nil"
           parsed == IF readable THEN Unmarshal(read.data)
                     ELSE [err |-> read.err, info |-> <<>>]
           skip == ~HasSuffix(name, containerFileExt) \/ ~readable \/ parsed.err # "nil"
           running == isProcessRunning(procs[p].uid, parsed.info.pid)
       IN /\ todo' = [todo EXCEPT ![p] = Tail(@)]
          /\ IF skip
             THEN UNCHANGED <<containers, gor>>
             ELSE /\ containers' = [containers EXCEPT
                                       ![p] = ListAppend(@, parsed.info, running)]
                  /\ gor' = IF running THEN gor
                            ELSE [gor EXCEPT ![p] = @ \cup {parsed.info.id}]
    /\ chain' = IF chain.stage \in {"listing", "relisting"} /\ chain.inv = p
                THEN chain ELSE NoChain
    /\ ret' = NoRet
    /\ UNCHANGED <<now, procs, dirExists, files, currentStateDir, pc, nops, regLog,
                   launchVars>>

\* ListContainers returns its accumulator; in handlePsCommand the table is printed next
ListReturn(p) ==
    /\ procs[p].st = "alive" /\ pc[p] = "list" /\ todo[p] = << >>
    /\ pc' = [pc EXCEPT ![p] = "idle"]
    /\ ret' = [NoRet EXCEPT !.by = p, !.op = "list", !.list = containers[p]]
    /\ containers' = [containers EXCEPT ![p] = << >>]
    /\ chain' = IF chain.stage = "listing" /\ chain.inv = p
                THEN [chain EXCEPT !.stage = "listed"]
                ELSE IF chain.stage = "relisting" /\ chain.inv = p
                     THEN [chain EXCEPT !.stage = "relisted"]
                     ELSE NoChain
    /\ cli' = [cli EXCEPT ![p].pc = IF @ = "ps" THEN "print" ELSE @]
    /\ UNCHANGED <<now, procs, dirExists, files, currentStateDir, todo, gor, nops, regLog,
                   hostname, mounts, boot, nextNs>>

\* ListContainers' loop run to its end by a process of user uid over a directory
\* that holds f and does not change meanwhile: the list returned and the ids
\* whose removal was started
RECURSIVE ListFrom(_, _, _, _)
ListFrom(names, f, uid, acc) ==
    IF names = << >> THEN acc
    ELSE LET name == Head(names)
             parsed == Unmarshal(f[name])
             skip == \/ ~HasSuffix(name, containerFileExt)
                     \/ f[name] = Directory
                     \/ parsed.err # "nil"
             running == isProcessRunning(uid, parsed.info.pid)
         IN ListFrom(Tail(names), f, uid,
                     IF skip THEN acc
                     ELSE [list |-> ListAppend(acc.list, parsed.info, running),
                           sched |-> IF running THEN acc.sched
                                     ELSE acc.sched \cup {parsed.info.id}])

ListOf(f, uid) == ListFrom(SortedNames(DOMAIN f), f, uid, [list |-> << >>, sched |-> {}])

\* the goroutine started by ListContainers for a dead record: UnregisterContainer(id),
\* its result dropped; a list the process has been returned stays what it is
Cleanup(p, id) ==
    /\ procs[p].st = "alive" /\ id \in gor[p]
    /\ files' = UnregisterFiles(p, id)
    /\ gor' = [gor EXCEPT ![p] = @ \ {id}]
    /\ chain' = IF chain.stage \in {"relisting", "relisted"} /\ chain.inv = p
                THEN chain ELSE NoChain
    /\ ret' = IF ret.op = "list" /\ ret.by = p THEN ret ELSE NoRet
    /\ UNCHANGED <<now, procs, dirExists, currentStateDir, pc, todo, containers,
                   nops, regLog, launchVars>>

\* ---------------------------------------------------------------- processes
Budget == nops < MaxOps /\ nops' = nops + 1

\* the process id clone(CLONE_NEWPID) gives the first process of a new namespace
FirstNsPid == 1

\* nspid: the process id inside a fresh process-id namespace (0: the process is in
\* the host's namespace and has no other id than its slot)
NoCli == [pc |-> "none", osArgs |-> << >>, ns |-> 0, parent |-> 0, child |-> 0,
          steps |-> << >>, runRet |-> "none", status |-> 0, nspid |-> 0]

\* a process id the kernel can give to a new process
Free(p) == procs[p].st = "none"

\* the end of process p: the kernel's entry, the package state and the goroutines go
Gone(p, st) ==
    /\ procs' = [q \in Pids |->
                    IF q = p THEN [st |-> st, uid |-> IF st = "none" THEN "root" ELSE procs[p].uid]
                    ELSE IF cli[p].pc = "wait" /\ q = cli[p].child
                         THEN [st |-> "none", uid |-> "root"]
                    ELSE procs[q]]
    /\ currentStateDir' = [currentStateDir EXCEPT ![p] = defaultStateDir]
    /\ pc' = [pc EXCEPT ![p] = "idle"]
    /\ todo' = [todo EXCEPT ![p] = << >>]
    /\ containers' = [containers EXCEPT ![p] = << >>]
    /\ gor' = [gor EXCEPT ![p] = {}]
    /\ regLog' = {IF e.pid = p THEN [e EXCEPT !.live = FALSE] ELSE e : e \in regLog}
    /\ chain' = IF chain.stage = "registered" /\ chain.pid = p /\ chain.inv # p
                THEN [chain EXCEPT !.stage = "exited"] ELSE NoChain
    /\ ret' = NoRet

Tick ==
    /\ now < MaxTime
    /\ now' = now + 1
    /\ chain' = NoChain
    /\ ret' = NoRet
    /\ UNCHANGED <<procs, dirExists, files, regProc, nops, regLog, launchVars>>

\* some process starts (a client of the registry package, or a process to be registered)
ProcSpawn(p, uid) ==
    /\ Free(p)
    /\ Budget
    /\ procs' = [procs EXCEPT ![p] = [st |-> "alive", uid |-> uid]]
    /\ cli' = [cli EXCEPT ![p] = NoCli]
    /\ chain' = NoChain
    /\ ret' = NoRet
    /\ UNCHANGED <<now, dirExists, files, regProc, regLog, hostname, mounts, boot, nextNs>>

\* such a process ends, at any point
ProcExit(p) ==
    /\ procs[p].st = "alive" /\ cli[p].pc = "none"
    /\ Gone(p, "none")
    /\ UNCHANGED <<now, dirExists, files, nops, launchVars>>

\* the registry's exported functions, called by a client process
ApiRegister(p, pid, command, args) ==
    cli[p].pc = "none" /\ Budget /\ RegisterContainer(p, pid, command, args)

ApiUnregister(p, id) ==
    cli[p].pc = "none" /\ Budget /\ UnregisterContainer(p, id)

ApiList(p) ==
    cli[p].pc = "none" /\ Budget /\ ListBegin(p)

\* ---------------------------------------------------------------- cmd/main.go
\* os.Args is a TLA+ sequence: os.Args[k] is osArgs[k + 1]
Marker == "setup-and-exec"
Self == "nsctl"
Words == {"run", Marker, "sh"}

\* exec.LookPath: the commands found on the search path
SearchPath == {"sh", "ps"}
LookPath(cmd) == cmd \in SearchPath

\* the command lines a user can type: the program name and up to MaxArgs words,
\* or "ps" (handlePsCommand reads no further argument)
UserArgs == UNION {[1..n -> Words] : n \in 0..MaxArgs} \cup {<<"ps">>}

\* isNamespaceSetupCall: len(os.Args) >= 3 && os.Args[1] == "setup-and-exec"
isNamespaceSetupCall(osArgs) == Len(osArgs) >= 3 /\ osArgs[2] = Marker

\* where main sends the process: the handler, or an exit with status 1
Dispatch(osArgs) ==
    IF isNamespaceSetupCall(osArgs) THEN "setup"
    ELSE IF Len(osArgs) < 2 THEN "usage"
    ELSE IF osArgs[2] = "run" THEN (IF Len(osArgs) < 3 THEN "usage" ELSE "start")
    ELSE IF osArgs[2] = "ps" THEN "ps"
    ELSE "usage"

\* os.Args[2] and os.Args[3:], as handleNamespaceSetup and handleRunCommand read them
TargetCmd(osArgs) == osArgs[3]
TargetArgs(osArgs) == SubSeq(osArgs, 4, Len(osArgs))

\* a re-execution that passes the command and its arguments without the marker
SetupArgs_Bare(command, args) == <<command>> \o args

\* the arguments RunWithSetup re-executes the binary with
SetupArgs(command, args) == <<Marker, command>> \o args

SetupPcs == {"setup", "mount", "lookpath", "exec"}

\* process p ends with an exit status; the namespaces it was the root of go with it.
\* A child stays in the process table until its parent's cmd.Wait has collected it.
Exited(p, status, runRet, step) ==
    /\ Gone(p, IF cli[p].parent # 0 THEN "zombie" ELSE "none")
    /\ cli' = [q \in Pids |->
                  IF q = p
                  THEN [cli[p] EXCEPT !.pc = "exited", !.status = status, !.runRet = runRet,
                                      !.osArgs = << >>,
                                      !.steps = IF step = "" THEN @ ELSE Append(@, step)]
                  ELSE IF q = cli[p].child /\ cli[p].pc = "wait" THEN NoCli
                  ELSE cli[q]]
    /\ LET n == cli[p].ns
       IN IF n = 0 THEN UNCHANGED <<hostname, mounts>>
          ELSE /\ hostname' = [x \in DOMAIN hostname \ {n} |-> hostname[x]]
               /\ mounts' = [x \in DOMAIN mounts \ {n} |-> mounts[x]]
    /\ UNCHANGED <<now, dirExists, files, nops, boot, nextNs>>

\* a process of user uid starts the program from a shell of the host, and main runs
\* up to the handler it selects (for a bad command line: up to os.Exit(1))
Start(p, uid, args) ==
    /\ Free(p)
    /\ LET osArgs == <<Self>> \o args
           to == Dispatch(osArgs)
       IN IF to = "usage"
          THEN /\ cli' = [cli EXCEPT ![p] = [NoCli EXCEPT !.pc = "exited", !.status = 1]]
               /\ UNCHANGED procs
          ELSE /\ cli' = [cli EXCEPT ![p] = [NoCli EXCEPT !.pc = to, !.osArgs = osArgs]]
               /\ procs' = [procs EXCEPT ![p] = [st |-> "alive", uid |-> uid]]
    /\ chain' = NoChain
    /\ ret' = NoRet
    /\ UNCHANGED <<now, dirExists, files, regProc, regLog, hostname, mounts, boot, nextNs>>

UserExec(p, uid, args) ==
    nops < MaxExecs /\ nops' = nops + 1 /\ Start(p, uid, args)

\* root runs "nsctl ps", any number of times
RunPs(p) ==
    Start(p, "root", <<"ps">>) /\ UNCHANGED nops

\* main in the re-executed child: the re-entry check, then the command switch
Main(p) ==
    /\ procs[p].st = "alive" /\ cli[p].pc = "main"
    /\ LET to == Dispatch(cli[p].osArgs)
       IN IF to = "usage"
          THEN Exited(p, 1, "none", "")
          ELSE /\ cli' = [cli EXCEPT ![p].pc = to]
               /\ chain' = NoChain
               /\ ret' = NoRet
               /\ UNCHANGED <<now, procs, dirExists, files, regProc, nops, regLog,
                              hostname, mounts, boot, nextNs>>

\* handlePsCommand: ListContainers, then the table, then main returns
PsList(p) ==
    cli[p].pc = "ps" /\ ListBegin(p) /\ UNCHANGED nops

PsExit(p) ==
    /\ procs[p].st = "alive" /\ cli[p].pc = "print"
    /\ Exited(p, 0, "none", "")

\* ---------------------------------------------------------------- pkg/ns/namespace.go
\* a RunWithSetup that drops the error of cmd.Start
StartFails_Swallowed(p) ==
    /\ procs[p].st = "alive" /\ cli[p].pc = "start"
    /\ Exited(p, 0, "nil", "")

\* RunWithSetup: cmd.Start fails, the error is returned, handleRunCommand exits
StartFails(p) ==
    /\ procs[p].st = "alive" /\ cli[p].pc = "start"
    /\ Exited(p, 1, "err", "")

\* RunWithSetup: cmd.Start creates child c in new UTS, PID and mount namespaces,
\* running the same binary with the marker; the namespaces start as copies.
\* RunWithSetup does not read os.Args again, so the parent's copy is dropped.
StartChild(p, c) ==
    /\ procs[p].st = "alive" /\ cli[p].pc = "start"
    /\ procs[p].uid = "root"
    /\ Free(c)
    /\ LET a == cli[p].osArgs
           n == nextNs
       IN /\ procs' = [procs EXCEPT ![c] = [st |-> "alive", uid |-> procs[p].uid]]
          /\ cli' = [cli EXCEPT
                        ![p].pc = "wait", ![p].child = c, ![p].osArgs = << >>,
                        ![c] = [NoCli EXCEPT
                                   !.pc = "main",
                                   !.osArgs = <<a[1]>> \o SetupArgs(TargetCmd(a), TargetArgs(a)),
                                   !.ns = n, !.parent = p, !.nspid = FirstNsPid]]
          /\ hostname' = (n :> hostname[cli[p].ns]) @@ hostname
          /\ mounts' = (n :> mounts[cli[p].ns]) @@ mounts
          /\ nextNs' = n + 1
    /\ chain' = NoChain
    /\ ret' = NoRet
    /\ UNCHANGED <<now, dirExists, files, regProc, nops, regLog, boot>>

\* a RunWithSetup that drops the result of cmd.Wait
Wait_NoStatus(p) ==
    /\ procs[p].st = "alive" /\ cli[p].pc = "wait"
    /\ cli[cli[p].child].pc = "exited"
    /\ Exited(p, 0, "nil", "")

\* RunWithSetup: cmd.Wait returns once the child has ended, an error unless the
\* child's status is 0; handleRunCommand exits 1 on an error
Wait(p) ==
    /\ procs[p].st = "alive" /\ cli[p].pc = "wait"
    /\ cli[cli[p].child].pc = "exited"
    /\ IF cli[cli[p].child].status = 0
       THEN Exited(p, 0, "nil", "")
       ELSE Exited(p, 1, "err", "")

\* a Sethostname that acts on the host's UTS namespace, as it would in a child
\* created without CLONE_NEWUTS
SetHostname_Host(p, ok) ==
    /\ procs[p].st = "alive" /\ cli[p].pc = "setup"
    /\ ok /\ procs[p].uid = "root"
    /\ hostname' = [hostname EXCEPT ![0] = "container"]
    /\ cli' = [cli EXCEPT ![p].pc = "mount", ![p].steps = Append(@, "hostname")]
    /\ chain' = NoChain
    /\ ret' = NoRet
    /\ UNCHANGED <<now, procs, dirExists, files, regProc, nops, regLog,
                   mounts, boot, nextNs>>

\* HandleSetupAndExec step 1: unix.Sethostname("container")
SetHostname(p, ok) ==
    /\ procs[p].st = "alive" /\ cli[p].pc = "setup"
    /\ ok => procs[p].uid = "root"
    /\ IF ok
       THEN /\ hostname' = [hostname EXCEPT ![cli[p].ns] = "container"]
            /\ cli' = [cli EXCEPT ![p].pc = "mount", ![p].steps = Append(@, "hostname")]
            /\ chain' = NoChain
            /\ ret' = NoRet
            /\ UNCHANGED <<now, procs, dirExists, files, regProc, nops, regLog,
                           mounts, boot, nextNs>>
       ELSE Exited(p, 1, "none", "hostname failed")

\* the mount namespaces a mount made in namespace n shows up in
Propagation(n) == IF boot.shared THEN DOMAIN mounts ELSE {n}

\* HandleSetupAndExec step 2: unix.Mount("proc", "/proc", "proc", 0, "")
MountProc(p, ok) ==
    /\ procs[p].st = "alive" /\ cli[p].pc = "mount"
    /\ ok => procs[p].uid = "root"
    /\ IF ok
       THEN /\ LET n == cli[p].ns
                   m == [src |-> "setup", ns |-> n, pidns |-> n]
               IN mounts' = [x \in DOMAIN mounts |->
                                IF x \in Propagation(n) THEN mounts[x] \cup {m}
                                ELSE mounts[x]]
            /\ cli' = [cli EXCEPT ![p].pc = "lookpath", ![p].steps = Append(@, "mount")]
            /\ chain' = NoChain
            /\ ret' = NoRet
            /\ UNCHANGED <<now, procs, dirExists, files, regProc, nops, regLog,
                           hostname, boot, nextNs>>
       ELSE Exited(p, 1, "none", "mount failed")

\* a HandleSetupAndExec that goes on to exec whatever LookPath answered
Resolve_NoCheck(p) ==
    /\ procs[p].st = "alive" /\ cli[p].pc = "lookpath"
    /\ cli' = [cli EXCEPT ![p].pc = "exec", ![p].steps = Append(@, "lookpath")]
    /\ chain' = NoChain
    /\ ret' = NoRet
    /\ UNCHANGED <<now, procs, dirExists, files, regProc, nops, regLog,
                   hostname, mounts, boot, nextNs>>

\* HandleSetupAndExec step 3: exec.LookPath(targetCmd)
Resolve(p) ==
    /\ procs[p].st = "alive" /\ cli[p].pc = "lookpath"
    /\ IF LookPath(TargetCmd(cli[p].osArgs))
       THEN /\ cli' = [cli EXCEPT ![p].pc = "exec", ![p].steps = Append(@, "lookpath")]
            /\ chain' = NoChain
            /\ ret' = NoRet
            /\ UNCHANGED <<now, procs, dirExists, files, regProc, nops, regLog,
                           hostname, mounts, boot, nextNs>>
       ELSE Exited(p, 1, "none", "lookpath failed")

\* a HandleSetupAndExec that starts the target as a further child and waits for
\* it: the target is the second process of the namespace
Exec_Spawn(p, ok) ==
    /\ procs[p].st = "alive" /\ cli[p].pc = "exec"
    /\ ok
    /\ cli' = [cli EXCEPT ![p].pc = "target", ![p].steps = Append(@, "exec"),
                          ![p].nspid = IF @ = 0 THEN 0 ELSE @ + 1]
    /\ chain' = NoChain
    /\ ret' = NoRet
    /\ UNCHANGED <<now, procs, dirExists, files, regProc, nops, regLog,
                   hostname, mounts, boot, nextNs>>

\* HandleSetupAndExec step 4: syscall.Exec replaces the image of process p
Exec(p, ok) ==
    /\ procs[p].st = "alive" /\ cli[p].pc = "exec"
    /\ IF ok
       THEN /\ cli' = [cli EXCEPT ![p].pc = "target", ![p].steps = Append(@, "exec")]
            /\ chain' = NoChain
            /\ ret' = NoRet
            /\ UNCHANGED <<now, procs, dirExists, files, regProc, nops, regLog,
                           hostname, mounts, boot, nextNs>>
       ELSE Exited(p, 1, "none", "exec failed")

\* the target program ends
TargetCodes == {0, 2}

TargetExit(p, status) ==
    /\ procs[p].st = "alive" /\ cli[p].pc = "target"
    /\ Exited(p, status, "none", "")

\* ---------------------------------------------------------------- specifications
HostNames == {"alpha", "container"}

Init ==
    /\ now = 0
    /\ procs = [p \in Pids |-> [st |-> "none", uid |-> "root"]]
    /\ dirExists = [d \in Dirs |-> FALSE]
    /\ files = [d \in Dirs |-> << >>]
    /\ currentStateDir = [p \in Pids |-> defaultStateDir]
    /\ pc = [p \in Pids |-> "idle"]
    /\ todo = [p \in Pids |-> << >>]
    /\ containers = [p \in Pids |-> << >>]
    /\ gor = [p \in Pids |-> {}]
    /\ ret = NoRet
    /\ nops = 0
    /\ regLog = {}
    /\ chain = NoChain
    /\ cli = [p \in Pids |-> NoCli]
    /\ boot \in [hostname : HostNames, shared : BOOLEAN]
    /\ hostname = (0 :> boot.hostname)
    /\ mounts = (0 :> {[src |-> "boot", ns |-> 0, pidns |-> 0]})
    /\ nextNs = 1

AllIds == {generateContainerID(t, q) : t \in Times, q \in Pids}

\* Spec: the registry package used as a library by client processes
RegInit == Init /\ boot = [hostname |-> "alpha", shared |-> TRUE]

Next ==
    \/ Tick
    \/ \E p \in Pids, uid \in Uids : ProcSpawn(p, uid)
    \/ \E p \in Pids : ProcExit(p)
    \/ \E p \in Pids, q \in Pids, i \in Inputs : ApiRegister(p, q, i[1], i[2])
    \/ \E p \in Pids, id \in AllIds : ApiUnregister(p, id)
    \/ \E p \in Pids : ApiList(p)
    \/ \E p \in Pids : ListStep(p)
    \/ \E p \in Pids : ListReturn(p)
    \/ \E p \in Pids, id \in AllIds : Cleanup(p, id)

Spec == RegInit /\ [][Next]_vars

\* LaunchSpec: the program as users run it: nsctl run, nsctl ps and the re-entered
\* child. Nothing in the program calls RegisterContainer, so the state directory
\* holds no record here and ListContainers' loop body has nothing to visit.
LaunchNext ==
    \/ \E p \in Pids, uid \in Uids, a \in UserArgs : UserExec(p, uid, a)
    \/ \E p \in Pids : Main(p)
    \/ \E p \in Pids : PsList(p)
    \/ \E p \in Pids : ListReturn(p)
    \/ \E p \in Pids : PsExit(p)
    \/ \E p \in Pids : StartFails(p)
    \/ \E p \in Pids, c \in Pids : StartChild(p, c)
    \/ \E p \in Pids : Wait(p)
    \/ \E p \in Pids, ok \in BOOLEAN : SetHostname(p, ok)
    \/ \E p \in Pids, ok \in BOOLEAN : MountProc(p, ok)
    \/ \E p \in Pids : Resolve(p)
    \/ \E p \in Pids, ok \in BOOLEAN : Exec(p, ok)
    \/ \E p \in Pids, s \in TargetCodes : TargetExit(p, s)

LaunchSpec == Init /\ [][LaunchNext]_vars

\* ListSpec: the registry package reading a state directory that other programs
\* and earlier runs have written into: records of processes 1 and 2 with either
\* stored status, files json.Unmarshal rejects, entries ReadFile cannot read, and
\* a file without the record extension. DeadPid is a process id that no process
\* has while the model runs: its record is the record of a process that has ended.
TmpExt == ".json.tmp"
DeadPid == 3
StoredIds == {generateContainerID(0, q) : q \in {1, DeadPid}}
ListIds == AllIds \cup StoredIds
StoredRecord(id, status) ==
    Marshal([id |-> id, pid |-> id[3], command |-> "sh", args |-> << >>,
             start_time |-> id[2], status |-> status])
StoredContents(name) ==
    IF name[2] = containerFileExt
    THEN {StoredRecord(name[1], st) : st \in {"running", "exited"}} \cup {Garbage, Directory}
    ELSE {Garbage}
StoredNames == {getContainerFilePath(id) : id \in StoredIds} \cup {<<generateContainerID(0, 1), TmpExt>>}
StoredDirs ==
    UNION { {f \in [S -> UNION {StoredContents(n) : n \in S}] :
                \A n \in S : f[n] \in StoredContents(n)} : S \in SUBSET StoredNames }

ListInit ==
    /\ now = 0
    /\ procs = [p \in Pids |-> [st |-> "none", uid |-> "root"]]
    /\ dirExists = [d \in Dirs |-> d = defaultStateDir]
    /\ \E f \in StoredDirs : files = [d \in Dirs |-> IF d = defaultStateDir THEN f ELSE << >>]
    /\ currentStateDir = [p \in Pids |-> defaultStateDir]
    /\ pc = [p \in Pids |-> "idle"]
    /\ todo = [p \in Pids |-> << >>]
    /\ containers = [p \in Pids |-> << >>]
    /\ gor = [p \in Pids |-> {}]
    /\ ret = NoRet
    /\ nops = 0
    /\ regLog = {}
    /\ chain = NoChain
    /\ cli = [p \in Pids |-> NoCli]
    /\ boot = [hostname |-> "alpha", shared |-> TRUE]
    /\ hostname = (0 :> boot.hostname)
    /\ mounts = (0 :> {[src |-> "boot", ns |-> 0, pidns |-> 0]})
    /\ nextNs = 1

ListNext ==
    \/ \E p \in Pids, uid \in Uids : ProcSpawn(p, uid)
    \/ \E p \in Pids : ProcExit(p)
    \/ \E p \in Pids, id \in ListIds : ApiUnregister(p, id)
    \/ \E p \in Pids : ApiList(p)
    \/ \E p \in Pids : ListStep(p)
    \/ \E p \in Pids : ListReturn(p)
    \/ \E p \in Pids, id \in ListIds : Cleanup(p, id)

ListSpec == ListInit /\ [][ListNext]_vars

\* RouteSpec: root has typed "nsctl run <command> <args>" and main has reached
\* handleRunCommand, for every command and argument list over RouteWords, the
\* marker and the program's own command names among them
MaxRouteArgs == 2
RouteWords == {"run", "ps", Marker, "sh"}
RouteArgs == UNION {[1..n -> RouteWords] : n \in 0..MaxRouteArgs}

RouteInit ==
    /\ now = 0
    /\ procs = [p \in Pids |-> [st |-> IF p = 1 THEN "alive" ELSE "none", uid |-> "root"]]
    /\ dirExists = [d \in Dirs |-> FALSE]
    /\ files = [d \in Dirs |-> << >>]
    /\ currentStateDir = [p \in Pids |-> defaultStateDir]
    /\ pc = [p \in Pids |-> "idle"]
    /\ todo = [p \in Pids |-> << >>]
    /\ containers = [p \in Pids |-> << >>]
    /\ gor = [p \in Pids |-> {}]
    /\ ret = NoRet
    /\ nops = 0
    /\ regLog = {}
    /\ chain = NoChain
    /\ \E command \in RouteWords, args \in RouteArgs :
          cli = [p \in Pids |->
                    IF p = 1
                    THEN [NoCli EXCEPT !.pc = Dispatch(<<Self, "run", command>> \o args),
                                       !.osArgs = <<Self, "run", command>> \o args]
                    ELSE NoCli]
    /\ boot = [hostname |-> "alpha", shared |-> FALSE]
    /\ hostname = (0 :> boot.hostname)
    /\ mounts = (0 :> {[src |-> "boot", ns |-> 0, pidns |-> 0]})
    /\ nextNs = 1

RouteNext ==
    \/ \E p \in Pids : StartFails(p)
    \/ \E p \in Pids, c \in Pids : StartChild(p, c)
    \/ \E p \in Pids : Main(p)
    \/ \E p \in Pids : Wait(p)
    \/ \E p \in Pids, ok \in BOOLEAN : SetHostname(p, ok)
    \/ \E p \in Pids, ok \in BOOLEAN : MountProc(p, ok)
    \/ \E p \in Pids : Resolve(p)
    \/ \E p \in Pids, ok \in BOOLEAN : Exec(p, ok)
    \/ \E p \in Pids, st \in TargetCodes : TargetExit(p, st)

RouteSpec == RouteInit /\ [][RouteNext]_vars

\* PsSpec: root's processes register themselves and end, and root runs "nsctl ps"
\* again and again. Every step of a running ps is taken if it stays possible, and
\* so is every cleanup goroutine: a goroutine runs unless its process ends first.
PsStep ==
    \E p \in Pids : RunPs(p) \/ PsList(p) \/ ListStep(p) \/ ListReturn(p) \/ PsExit(p)

Goroutine == \E p \in Pids, id \in AllIds : Cleanup(p, id)

PsNext ==
    \/ \E p \in Pids : ProcSpawn(p, "root")
    \/ \E p \in Pids : ProcExit(p)
    \/ \E p \in Pids, i \in Inputs : ApiRegister(p, p, i[1], i[2])
    \/ PsStep
    \/ Goroutine

PsSpec == RegInit /\ [][PsNext]_vars /\ WF_vars(PsStep) /\ WF_vars(Goroutine)

\* ---------------------------------------------------------------- claims
InfoOf(d, n) == Unmarshal(files[d][n]).info

\* C1: when Register(P, command, args) has succeeded for a live process P, in a
\* state directory that held no record for P, and List is called immediately
\* afterwards, List returns exactly one record with pid P, and that record has
\* status running and the registered command and args.
C1_RegisterThenList ==
    chain.stage = "listed" =>
        LET l == ret.list
            hits == {k \in 1..Len(l) : l[k].pid = chain.pid}
        IN /\ ret.op = "list" /\ ret.err = "nil"
           /\ Cardinality(hits) = 1
           /\ \A k \in hits : /\ l[k].status = "running"
                              /\ l[k].command = chain.command
                              /\ l[k].args = chain.args

\* C2: a record whose process has terminated is eventually removed from the state
\* directory (unless a new process has taken its pid), also when every List runs
\* in a "nsctl ps" that exits right after printing.
C2_EventualRemoval ==
    \A d \in Dirs, id \in AllIds :
        (/\ getContainerFilePath(id) \in DOMAIN files[d]
         /\ procs[id[3]].st = "none")
            ~> (\/ getContainerFilePath(id) \notin DOMAIN files[d]
                \/ procs[id[3]].st # "none")

\* C3: while RunWithSetup waits for a child it has started, and the child is
\* alive, the registry holds a record with the child's pid.
C3_LaunchTracked ==
    \A p \in Pids :
        (cli[p].pc = "wait" /\ procs[cli[p].child].st = "alive") =>
            \E d \in Dirs : RecordsOf(d, cli[p].child) # {}

\* C4 as claimed: Unregister of an id with no record file returns success, and
\* after Unregister of an existing record the file is absent and a second
\* Unregister returns success.
C4_AsClaimed ==
    ret.op = "unregister" =>
        /\ ~ret.existed => ret.err = "nil"
        /\ ret.existed =>
              /\ getContainerFilePath(ret.id) \notin DOMAIN files[currentStateDir[ret.by]]
              /\ UnregisterResult(ret.by, ret.id) = "nil"

\* C4 as amended: Unregister of an id with no record file in the caller's state
\* directory returns success, at every call; an Unregister that returns success
\* leaves no record file, and the next Unregister of the id returns success; an
\* Unregister that returns an error was refused by the directory's permissions
\* and has left the existing file in place.
C4_IdempotentUnregister ==
    /\ \A p \in Pids, id \in AllIds :
          (/\ procs[p].st = "alive"
           /\ getContainerFilePath(id) \notin DOMAIN files[currentStateDir[p]])
              => UnregisterResult(p, id) = "nil"
    /\ ret.op = "unregister" =>
          LET present == getContainerFilePath(ret.id)
                             \in DOMAIN files[currentStateDir[ret.by]]
          IN /\ ~ret.existed => ret.err = "nil"
             /\ ret.err = "nil" => ~present /\ UnregisterResult(ret.by, ret.id) = "nil"
             /\ ret.err # "nil" => /\ ret.existed /\ present
                                   /\ ~CanWrite(procs[ret.by].uid, currentStateDir[ret.by])

\* a second Unregister of a record that was registered and has been removed
\* returns success
C4_Witness ==
    /\ ret.op = "unregister" /\ ~ret.existed /\ ret.err = "nil"
    /\ \E e \in regLog : e.id = ret.id /\ e.dir = currentStateDir[ret.by]

\* C5: the registrations of two distinct processes that are both alive have
\* distinct ids and distinct record files, and the file of each, while it exists,
\* holds its own record.
C5_DistinctIds ==
    \A e1 \in regLog, e2 \in regLog :
        (e1.live /\ e2.live /\ e1.pid # e2.pid) =>
            /\ e1.id # e2.id
            /\ <<e1.dir, getContainerFilePath(e1.id)>> # <<e2.dir, getContainerFilePath(e2.id)>>
            /\ getContainerFilePath(e1.id) \in DOMAIN files[e1.dir] =>
                  /\ InfoOf(e1.dir, getContainerFilePath(e1.id)).pid = e1.pid
                  /\ InfoOf(e1.dir, getContainerFilePath(e1.id)).id = e1.id

\* two live processes registered in the same second and the same directory, both
\* files present
C5_Witness ==
    \E e1 \in regLog, e2 \in regLog :
        /\ e1.live /\ e2.live /\ e1.pid # e2.pid
        /\ e1.dir = e2.dir /\ e1.id[2] = e2.id[2]
        /\ getContainerFilePath(e1.id) \in DOMAIN files[e1.dir]
        /\ getContainerFilePath(e2.id) \in DOMAIN files[e2.dir]

SetupSteps == <<"hostname", "mount", "lookpath", "exec">>
SetupFailures == <<"hostname failed", "mount failed", "lookpath failed", "exec failed">>
StepsDone(k) == SubSeq(SetupSteps, 1, k)
SetupMount(n) == [src |-> "setup", ns |-> n, pidns |-> n]

\* the state of the launch that process p is the child of
Stage(p) ==
    CASE cli[p].pc \in {"main", "setup", "mount"} -> "Created"
      [] cli[p].pc \in {"lookpath", "exec"} -> "Configured"
      [] cli[p].pc = "target" -> "Running"
      [] cli[p].pc = "exited" -> "Terminated"
      [] OTHER -> "Init"

\* C6: the setup handler sets the hostname, then mounts /proc, then resolves the
\* command, then executes the target; the target runs only after all of them
\* succeeded, in that order; a step that fails ends the process with an error
\* status, the steps after it not taken and the target never executed.
C6_SetupBeforeTarget ==
    \A p \in Pids :
        LET c == cli[p]
            named == hostname[c.ns] = "container"
            mounted == SetupMount(c.ns) \in mounts[c.ns]
            resolved == LookPath(TargetCmd(c.osArgs))
        IN /\ c.pc = "setup" => c.steps = StepsDone(0)
           /\ c.pc = "mount" => c.steps = StepsDone(1) /\ named
           /\ c.pc = "lookpath" => c.steps = StepsDone(2) /\ named /\ mounted
           /\ c.pc = "exec" => c.steps = StepsDone(3) /\ named /\ mounted /\ resolved
           /\ c.pc = "target" => c.steps = StepsDone(4) /\ named /\ mounted /\ resolved
           /\ Stage(p) = "Configured" => named /\ mounted
           /\ (c.pc = "exited" /\ c.steps # << >>) =>
                 \/ c.steps = StepsDone(4)
                 \/ \E k \in 0..3 : /\ c.steps = StepsDone(k) \o <<SetupFailures[k + 1]>>
                                    /\ c.status = 1

\* the child of a launch runs the target
C6_Witness ==
    \E p \in Pids : cli[p].parent # 0 /\ cli[p].pc = "target" /\ Stage(p) = "Running"

\* C7: only a child that RunWithSetup created in fresh namespaces runs the setup
\* handler, so the host's hostname is the one it booted with and no setup
\* handler has mounted /proc in the host's mount namespace.
C7_SetupOnlyInChild ==
    /\ \A p \in Pids : cli[p].pc \in SetupPcs => cli[p].parent # 0 /\ cli[p].ns # 0
    /\ hostname[0] = boot.hostname
    /\ SetupMount(0) \notin mounts[0]

\* C8: RunWithSetup returns only after the child it started has ended; it returns
\* an error exactly when cmd.Start failed or the child ended with a status other
\* than 0, and nil exactly when the child ended with status 0.
C8_LaunchBlocksAndPropagates ==
    [][\A p \in Pids :
          (cli[p].pc \in {"start", "wait"} /\ cli'[p].pc = "exited") =>
              LET started == cli[p].pc = "wait"
                  child == cli[cli[p].child]
              IN /\ started => child.pc = "exited" /\ child.parent = p
                 /\ cli'[p].runRet = "err" <=> (~started \/ child.status # 0)
                 /\ cli'[p].runRet = "nil" <=> (started /\ child.status = 0)
                 /\ cli'[p].status = IF cli'[p].runRet = "nil" THEN 0 ELSE 1]_vars

\* a launch has returned nil
C8_Witness ==
    \E p \in Pids : cli[p].pc = "exited" /\ cli[p].runRet = "nil" /\ cli[p].child # 0

\* C9: when cmd.Start fails RunWithSetup returns the error at once: no child
\* process exists, no namespace was made, and the state directories and their
\* files are as they were.
C9_CreationFailureClean ==
    [][\A p \in Pids :
          (cli[p].pc = "start" /\ cli'[p].pc = "exited") =>
              /\ cli'[p].runRet = "err" /\ cli'[p].status = 1 /\ cli'[p].child = 0
              /\ \A q \in Pids \ {p} : procs'[q] = procs[q] /\ cli'[q] = cli[q]
              /\ DOMAIN hostname' = DOMAIN hostname /\ DOMAIN mounts' = DOMAIN mounts
              /\ files' = files /\ dirExists' = dirExists]_vars

\* a launch whose cmd.Start failed has returned
C9_Witness ==
    \E p \in Pids :
        cli[p].pc = "exited" /\ cli[p].runRet = "err" /\ cli[p].child = 0

\* C10: the /proc mount a launch's setup handler made is in the mount table of
\* that launch's mount namespace only: not in the host's, not in another
\* launch's.
C10_MountIsolation ==
    \A n \in DOMAIN mounts : \A m \in mounts[n] :
        (m.src = "setup" /\ m.ns # 0) => m.ns = n

\* C11: in a launch that reached its target, the process that runs the target is
\* the child RunWithSetup created: it is the first process of its process-id
\* namespace, the only process of that namespace, and the namespace exists as
\* long as the process does.
C11_RootProcessIdentity ==
    /\ \A p \in Pids :
          (cli[p].parent # 0 /\ cli[p].pc = "target") =>
              /\ cli[p].nspid = FirstNsPid
              /\ cli[p].ns \in DOMAIN mounts \ {0}
              /\ cli[cli[p].parent].pc = "wait" /\ cli[cli[p].parent].child = p
              /\ \A q \in Pids \ {p} : cli[q].ns # cli[p].ns
    /\ \A n \in DOMAIN mounts \ {0} :
          \E p \in Pids : procs[p].st = "alive" /\ cli[p].ns = n /\ cli[p].nspid = FirstNsPid
    /\ \A p \in Pids :
          (cli[p].parent # 0 /\ cli[p].pc = "exited") => cli[p].ns \notin DOMAIN mounts

\* the child of a launch runs the target, as the first process of its namespace
C11_Witness ==
    \E p \in Pids : /\ cli[p].parent # 0 /\ cli[p].pc = "target"
                     /\ cli[p].steps = SetupSteps /\ procs[p].st = "alive"
\* the hostname HandleSetupAndExec sets
ContainerHostname == "container"

\* C12: while the target of a launch runs, the hostname of its UTS namespace is
\* "container", whatever hostname the host has; and no step of a launched child
\* changes the hostname of the host's namespace: it changes only in a step of a
\* setup handler that a user started in the host's namespace.
C12_HostnameIsolation ==
    /\ [](\A p \in Pids :
            (cli[p].parent # 0 /\ cli[p].pc = "target") =>
                /\ cli[p].ns # 0
                /\ hostname[cli[p].ns] = ContainerHostname)
    /\ [][hostname'[0] # hostname[0] =>
              \E p \in Pids : /\ cli[p].pc = "setup" /\ cli'[p].pc = "mount"
                               /\ cli[p].parent = 0 /\ cli[p].ns = 0]_vars

\* the target of a launch runs on a host whose hostname is not "container" and
\* has stayed what it was at boot
C12_Witness ==
    \E p \in Pids : /\ cli[p].parent # 0 /\ cli[p].pc = "target"
                     /\ boot.hostname # ContainerHostname
                     /\ hostname[0] = boot.hostname
                     /\ hostname[cli[p].ns] = ContainerHostname
\* C13: a Register whose only obstacle is a permission error on the primary state
\* directory (the directory cannot be created, or it exists and the caller may
\* not write into it) succeeds: it has switched to the user's directory and has
\* written the record there.
C13_FallbackTrigger ==
    ret.op = "register" =>
        LET d == currentStateDir[ret.by]
        IN /\ ret.err = "nil"
           /\ getContainerFilePath(ret.id) \in DOMAIN files[d]
           /\ ~CanWrite(procs[ret.by].uid, defaultStateDir) => d = userStateDir
\* C14: inside one process currentStateDir moves only from the primary to the
\* fallback directory; Unregister never changes it; a Register or Unregister
\* changes files only in the directory currentStateDir names after the call, a
\* cleanup goroutine only in the one it names; and List enumerates and reads
\* only the directory currentStateDir names.
C14_FallbackPermanence ==
    [][\A p \in Pids :
          (procs[p].st = "alive" /\ procs'[p].st = "alive") =>
              LET cur == currentStateDir[p]
                  new == currentStateDir'[p]
                  acted == ret'.by = p /\ ret'.op \in {"register", "unregister"}
              IN /\ cur = userStateDir => new = userStateDir
                 /\ new # cur => cur = defaultStateDir /\ new = userStateDir
                 /\ (ret'.by = p /\ ret'.op = "unregister") => new = cur
                 /\ acted => \A d \in Dirs \ {new} : files'[d] = files[d]
                 /\ gor'[p] # gor[p] /\ gor'[p] \subseteq gor[p] =>
                        \A d \in Dirs \ {cur} : files'[d] = files[d]
                 /\ (pc[p] = "idle" /\ pc'[p] = "list") =>
                        todo'[p] = SortedNames(DOMAIN files[new])
                 /\ Len(containers'[p]) > Len(containers[p]) =>
                        LET name == Head(todo[p])
                            got == containers'[p][Len(containers'[p])]
                        IN /\ name \in DOMAIN files[cur]
                           /\ [got EXCEPT !.status = "running"]
                                  = [Unmarshal(files[cur][name]).info
                                        EXCEPT !.status = "running"]]_vars

\* a process that had switched to the fallback directory has then removed a
\* record from it with Unregister, which does not resolve the directory itself
C14_Witness ==
    /\ ret.op = "unregister" /\ ret.existed /\ ret.err = "nil"
    /\ currentStateDir[ret.by] = userStateDir
    /\ procs[ret.by].uid # "root"
\* a file that ListContainers turns into a record: it has the record extension,
\* it can be read, and it holds a JSON document of a ContainerInfo
ValidRecordFile(dir, name) ==
    /\ name[2] = containerFileExt
    /\ name \in DOMAIN files[dir]
    /\ files[dir][name] \notin {Garbage, Directory}

\* C15: ListContainers never fails on a file: each iteration of its loop either
\* appends the one record of a valid record file or, for a file that is not a
\* record file, is malformed, cannot be read or has disappeared since the
\* directory was read, appends nothing and goes on; no file is visited twice; and
\* List returns success, with every record at most once.
C15_ListToleratesBadFiles ==
    /\ [](/\ ret.op = "list" =>
               /\ ret.err = "nil"
               /\ \A i, j \in 1..Len(ret.list) : ret.list[i].id = ret.list[j].id => i = j
          /\ \A p \in Pids :
                pc[p] = "list" =>
                    /\ \A i, j \in 1..Len(todo[p]) : todo[p][i] = todo[p][j] => i = j
                    /\ \A i \in 1..Len(containers[p]), j \in 1..Len(todo[p]) :
                           getContainerFilePath(containers[p][i].id) # todo[p][j])
    /\ [][\A p \in Pids :
             (/\ pc[p] = "list" /\ todo[p] # << >> /\ todo'[p] # todo[p]
              /\ procs'[p].st = "alive") =>
                 LET name == Head(todo[p])
                     dir == currentStateDir[p]
                 IN /\ pc'[p] = "list" /\ todo'[p] = Tail(todo[p])
                    /\ ValidRecordFile(dir, name) =>
                          /\ Len(containers'[p]) = Len(containers[p]) + 1
                          /\ SubSeq(containers'[p], 1, Len(containers[p])) = containers[p]
                          /\ containers'[p][Len(containers'[p])].id = files[dir][name][2].id
                          /\ containers'[p][Len(containers'[p])].pid = files[dir][name][2].pid
                    /\ ~ValidRecordFile(dir, name) => containers'[p] = containers[p]]_vars

\* a List has returned the one valid record of a directory that also held a
\* malformed file and an unreadable entry
C15_Witness ==
    /\ ret.op = "list" /\ ret.err = "nil" /\ Len(ret.list) = 1
    /\ \E n1, n2 \in DOMAIN files[currentStateDir[ret.by]] :
          /\ ValidRecordFile(currentStateDir[ret.by], n1)
          /\ files[currentStateDir[ret.by]][n2] \in {Garbage, Directory}
          /\ n2[2] = containerFileExt
\* C16: the iteration of ListContainers that finds the process of a record dead
\* appends the record with status "exited" and starts its removal; the removal
\* changes neither the accumulator nor a list already returned; and List returns
\* its accumulator, whether the removal has run or not.
C16_DeadRecordsStayInSnapshot ==
    [][\A p \in Pids :
          procs'[p].st = "alive" =>
              LET dir == currentStateDir[p]
                  n == Len(containers'[p])
              IN /\ (/\ pc[p] = "list" /\ todo[p] # << >> /\ todo'[p] # todo[p]
                      /\ ValidRecordFile(dir, Head(todo[p]))
                      /\ Kill0("root", files[dir][Head(todo[p])][2].pid) = "ESRCH") =>
                         /\ n = Len(containers[p]) + 1
                         /\ containers'[p][n].id = files[dir][Head(todo[p])][2].id
                         /\ containers'[p][n].status = "exited"
                         /\ containers'[p][n].id \in gor'[p]
                 /\ (gor'[p] # gor[p] /\ gor'[p] \subseteq gor[p]) =>
                         /\ containers'[p] = containers[p]
                         /\ pc'[p] = pc[p] /\ todo'[p] = todo[p]
                         /\ (ret.op = "list" /\ ret.by = p) => ret' = ret
                 /\ (pc[p] = "list" /\ pc'[p] = "idle") =>
                         ret'.op = "list" /\ ret'.by = p /\ ret'.list = containers[p]]_vars

\* a returned list holds the record of a dead process with status "exited", and
\* the removal the List started has already deleted the record's file
C16_Witness ==
    /\ ret.op = "list"
    /\ \E k \in 1..Len(ret.list) :
          /\ ret.list[k].status = "exited"
          /\ Kill0("root", ret.list[k].pid) = "ESRCH"
          /\ ret.list[k].id \notin gor[ret.by]
          /\ getContainerFilePath(ret.list[k].id) \notin DOMAIN files[currentStateDir[ret.by]]
\* the scenario of C17: a Register into an empty state directory, then the end of
\* the registered process, then a List by the registering process, which has
\* returned; nothing else has been written into the directory
ExitedThenListed ==
    /\ chain.stage = "relisted"
    /\ DOMAIN files[currentStateDir[chain.inv]] \subseteq {getContainerFilePath(chain.id)}

\* C17 as claimed: after Register into an empty state directory and the end of
\* the registered process, the next List returns zero records and the record
\* file is absent.
C17_AsClaimed ==
    ExitedThenListed =>
        /\ ret.op = "list" /\ ret.err = "nil" /\ Len(ret.list) = 0
        /\ getContainerFilePath(chain.id) \notin DOMAIN files[currentStateDir[chain.inv]]

\* C17 as amended: after Register into an empty state directory and the end of
\* the registered process, the next List returns exactly one record: the
\* registered one, with status "exited"; it has started the removal of the
\* record, and the record file is absent once that removal has run.
C17_ExitedThenRemoved ==
    ExitedThenListed =>
        LET d == currentStateDir[chain.inv]
            name == getContainerFilePath(chain.id)
        IN /\ ret.op = "list" /\ ret.by = chain.inv /\ ret.err = "nil"
           /\ Len(ret.list) = 1
           /\ ret.list[1].id = chain.id /\ ret.list[1].pid = chain.pid
           /\ ret.list[1].command = chain.command /\ ret.list[1].args = chain.args
           /\ ret.list[1].status = "exited"
           /\ \/ chain.id \in gor[chain.inv] /\ name \in DOMAIN files[d]
              \/ chain.id \notin gor[chain.inv] /\ name \notin DOMAIN files[d]

\* the scenario with the example's command line, the removal having run
C17_Witness ==
    /\ ExitedThenListed
    /\ chain.command = "/bin/echo" /\ chain.args = <<"hi">>
    /\ chain.id \notin gor[chain.inv]
\* the directories that differ from f in nothing but the stored status of records
StoredStatuses == {"running", "exited", ""}
Restatus(data, status) ==
    IF data[1] = "json" THEN <<"json", [data[2] EXCEPT !.status = status]>> ELSE data
SameButStatus(f) ==
    {[n \in DOMAIN f |-> Restatus(f[n], st[n])] : st \in [DOMAIN f -> StoredStatuses]}

\* C18: the status ListContainers reports for a record is "running" exactly when
\* the probe of its pid succeeds at the time of the read, whatever status the
\* file stores, and the removal is started exactly when the probe fails; so two
\* directories that differ only in stored statuses give the same list and the
\* same removals.
C18_StoredStatusNotTrusted ==
    /\ [](\A d \in Dirs, uid \in Uids :
            /\ \A g \in SameButStatus(files[d]) : ListOf(g, uid) = ListOf(files[d], uid)
            /\ LET r == ListOf(files[d], uid)
               IN \A k \in 1..Len(r.list) :
                     /\ r.list[k].status = "running" <=> Kill0(uid, r.list[k].pid) = "nil"
                     /\ r.list[k].status = "exited" <=> Kill0(uid, r.list[k].pid) # "nil"
                     /\ r.list[k].id \in r.sched <=> Kill0(uid, r.list[k].pid) # "nil")
    /\ [][\A p \in Pids :
             (/\ pc[p] = "list" /\ todo[p] # << >> /\ todo'[p] # todo[p]
              /\ procs'[p].st = "alive"
              /\ ValidRecordFile(currentStateDir[p], Head(todo[p]))) =>
                 LET info == files[currentStateDir[p]][Head(todo[p])][2]
                     alive == Kill0(procs[p].uid, info.pid) = "nil"
                     got == containers'[p][Len(containers'[p])]
                 IN /\ got = [info EXCEPT !.status = IF alive THEN "running" ELSE "exited"]
                    /\ gor'[p] = IF alive THEN gor[p] ELSE gor[p] \cup {info.id}]_vars

\* a List has returned a record as running whose file stores the status "exited"
C18_Witness ==
    /\ ret.op = "list"
    /\ \E k \in 1..Len(ret.list) :
          LET name == getContainerFilePath(ret.list[k].id)
              d == currentStateDir[ret.by]
          IN /\ ret.list[k].status = "running"
             /\ name \in DOMAIN files[d]
             /\ files[d][name][1] = "json"
             /\ files[d][name][2].status = "exited"
\* C19: the child RunWithSetup starts gets the marker, then the command, then
\* the arguments RunWithSetup was given, in their order; main in the child
\* takes it for the re-entry and hands handleNamespaceSetup exactly that
\* command and those arguments; the child never reaches the command switch, so
\* it ends only inside or after HandleSetupAndExec.
C19_ReentryRoundTrip ==
    /\ [](\A p \in Pids :
            cli[p].parent # 0 =>
                /\ cli[p].pc \in {"main", "setup", "mount", "lookpath", "exec", "target",
                                  "exited"}
                /\ cli[p].pc # "exited" =>
                       /\ isNamespaceSetupCall(cli[p].osArgs)
                       /\ Dispatch(cli[p].osArgs) = "setup"
                /\ cli[p].pc = "exited" => cli[p].steps # << >>)
    /\ [][\A p \in Pids :
             /\ (cli[p].pc = "start" /\ cli'[p].pc = "wait") =>
                    LET a == cli[p].osArgs
                        b == cli'[cli'[p].child].osArgs
                    IN /\ b[1] = a[1] /\ b[2] = Marker
                       /\ TargetCmd(b) = TargetCmd(a)
                       /\ TargetArgs(b) = TargetArgs(a)
                       /\ Len(b) = Len(a)
             /\ (cli[p].parent # 0 /\ cli'[p].parent # 0 /\ cli'[p].pc # "exited") =>
                    cli'[p].osArgs = cli[p].osArgs]_vars

\* the setup handler of a child runs for the command "setup-and-exec" with the
\* arguments "run" and "ps", in that order
C19_Witness ==
    \E p \in Pids : /\ cli[p].parent # 0 /\ cli[p].pc = "setup"
                     /\ TargetCmd(cli[p].osArgs) = Marker
                     /\ TargetArgs(cli[p].osArgs) = <<"run", "ps">>
\* no removal of id is pending in a process that uses directory d
NonePending(d, id) ==
    \A q \in Pids : (procs'[q].st = "alive" /\ currentStateDir'[q] = d) => id \notin gor'[q]

\* process p's cleanup goroutine for id runs in this step
CleanupRuns(p, id) ==
    /\ procs[p].st = "alive" /\ procs'[p].st = "alive"
    /\ id \in gor[p] /\ gor'[p] = gor[p] \ {id}

IdIn(f, d, n) == Unmarshal(f[d][n]).info.id

\* every file of every state directory is a record stored under its own id: the
\* file name is the id and the record extension, the id field inside is that id
RecordsAtOwnPath ==
    \A d \in Dirs : \A n \in DOMAIN files[d] :
        /\ Unmarshal(files[d][n]).err = "nil"
        /\ n[1] = IdIn(files, d, n) /\ n[2] = containerFileExt

\* no state directory holds two records of one id
OnePerIdInEachDir ==
    \A d \in Dirs : \A n \in DOMAIN files[d], m \in DOMAIN files[d] :
        IdIn(files, d, n) = IdIn(files, d, m) => n = m

\* no two record files hold one id, whatever directories they are in
OnePerIdOnDisk ==
    \A d \in Dirs, e \in Dirs : \A n \in DOMAIN files[d], m \in DOMAIN files[e] :
        IdIn(files, d, n) = IdIn(files, e, m) => (d = e /\ n = m)

\* what a step may do to record files: a file that stays keeps its id; a removal
\* is scheduled for the id read from the file the loop is at; the cleanup for id
\* run by p leaves every file but the one of that id in p's directory, and that
\* directory is the one the file was read from, because p's directory does not
\* change while a removal is pending
RecordStep ==
    /\ \A d \in Dirs : \A n \in DOMAIN files[d] \cap DOMAIN files'[d] :
           IdIn(files', d, n) = IdIn(files, d, n)
    /\ \A p \in Pids : \A id \in gor'[p] \ gor[p] :
           /\ pc[p] = "list" /\ todo[p] # << >>
           /\ Head(todo[p]) \in DOMAIN files[currentStateDir[p]]
           /\ IdIn(files, currentStateDir[p], Head(todo[p])) = id
           /\ Head(todo[p]) = <<id, containerFileExt>>
    /\ \A p \in Pids :
           (gor[p] \cap gor'[p] # {}) => currentStateDir'[p] = currentStateDir[p]
    /\ \A p \in Pids, id \in AllIds :
           CleanupRuns(p, id) =>
               \A d \in Dirs : \A n \in DOMAIN files[d] :
                   (d # currentStateDir[p] \/ n # <<id, containerFileExt>>) =>
                       (n \in DOMAIN files'[d] /\ files'[d][n] = files[d][n])

\* C21 as claimed: every record file is stored under its own id, so there is at
\* most one on-disk record per id; a record's id never changes; the cleanup
\* removes exactly the file it read.
C21_AsClaimed ==
    /\ [](RecordsAtOwnPath /\ OnePerIdOnDisk)
    /\ [][RecordStep]_vars

\* C21 as amended: every record file is stored under its own id in the state
\* directory of the process that wrote it, so each state directory holds at most
\* one record per id (the primary and the fallback directory may each hold one of
\* the same id); a record's id never changes; the cleanup removes exactly the
\* file it read.
C21_OneFilePerId ==
    /\ [](RecordsAtOwnPath /\ OnePerIdInEachDir)
    /\ [][RecordStep]_vars

\* a cleanup has removed the record its List read and appended as exited, while
\* another record stays in the directory
C21_Witness ==
    /\ \E p \in Pids : \E k \in 1..Len(containers[p]) :
          /\ containers[p][k].status = "exited"
          /\ containers[p][k].id \notin gor[p]
          /\ <<containers[p][k].id, containerFileExt>> \notin DOMAIN files[currentStateDir[p]]
          /\ DOMAIN files[currentStateDir[p]] # {}
\* the record of id in directory d was registered for a process that is alive:
\* regLog keeps the registrations of processes alive at the time, and marks them
\* when the process ends
LiveRecord(d, id) == \E e \in regLog : e.id = id /\ e.dir = d /\ e.live

\* C22: ListContainers starts the removal of a record only if the process the
\* record was registered for has ended, and no cleanup goroutine deletes the
\* record file of a process that is alive.
C22_LiveNeverDiscarded ==
    [][\A p \in Pids, id \in AllIds :
          LET d == currentStateDir[p]
              name == getContainerFilePath(id)
          IN /\ (procs'[p].st = "alive" /\ id \in gor'[p] \ gor[p]) => ~LiveRecord(d, id)
             /\ (CleanupRuns(p, id) /\ name \in DOMAIN files[d] /\ name \notin DOMAIN files'[d])
                    => ~LiveRecord(d, id)]_vars
====
